---- MODULE Spec2Model ----
(***************************************************************************)
(* A model of the Fastly/AWS-SDK HTTP transport bridge (src/src/lib.rs):   *)
(* FastlyHttpClient, FastlyHttpConnector::call, the request / response /   *)
(* body conversions, into_connector_error and ResponseFuture::poll,        *)
(* together with the pieces of the environment they run against: the       *)
(* sandbox behind send_async / PendingRequest::poll, the tokio tasks       *)
(* spawned by the code, the 5 ms sleeper tasks and the oneshot channel.    *)
(***************************************************************************)
EXTENDS Integers, Sequences, FiniteSets, TLC

(***************************************************************************)
(* Bounds of the model.                                                    *)
(***************************************************************************)
\* largest number of NotYet answers a scripted handle gives before Done
MaxNotYet == 2
\* largest number of polls of one task that no wake-up asked for
MaxSpurious == 1
\* longest body, in bytes
MaxBodyLen == 3
\* largest number of polls the model follows on a handle that never reports Done
MaxPolls == 4
\* largest number of http_connector calls on one facade
MaxConnectors == 3
\* largest number of header entries of a message
MaxHeaders == 3

(***************************************************************************)
(* Option and Result values.                                               *)
(***************************************************************************)
None == <<>>
Some(x) == <<x>>
Ok(v) == [ok |-> TRUE, val |-> v]
Err(e) == [ok |-> FALSE, err |-> e]

Calls == {1, 2}
Backends == {"origin_a", "origin_b"}
Bytes == {0, 1, 2}

RECURSIVE SeqsUpTo(_, _)
SeqsUpTo(S, n) ==
    IF n = 0 THEN {<<>>}
    ELSE LET shorter == SeqsUpTo(S, n - 1)
         IN  shorter \cup {Append(s, x) : s \in {t \in shorter : Len(t) = n - 1}, x \in S}

(***************************************************************************)
(* fastly::http::request::SendErrorCause, by tag.  The enum is             *)
(* non-exhaustive; "Unlisted" stands for a cause added after the code was  *)
(* written.  arg is the payload of DnsError {rcode, info_code} and         *)
(* TlsAlertReceived {alert_id}.                                            *)
(***************************************************************************)
CauseTags ==
    {"DnsTimeout", "DnsError", "DestinationNotFound", "DestinationUnavailable",
     "DestinationIpUnroutable", "ConnectionRefused", "ConnectionTerminated",
     "ConnectionTimeout", "ConnectionLimitReached", "TlsCertificateError",
     "TlsConfigurationError", "HttpIncompleteResponse",
     "HttpResponseHeaderSectionTooLarge", "HttpResponseBodyTooLarge",
     "HttpResponseTimeout", "HttpResponseStatusInvalid", "HttpUpgradeFailed",
     "HttpProtocolError", "HttpRequestCacheKeyInvalid", "HttpRequestUriInvalid",
     "InternalError", "TlsAlertReceived", "TlsProtocolError", "BufferSize",
     "Unlisted"}

CauseArgs == {0, 1}

SendError(b, tag, arg) ==
    [type |-> "SendError", backend |-> b, cause |-> [tag |-> tag, arg |-> arg]]

SendErrors == {SendError(b, t, a) : b \in Backends, t \in CauseTags, a \in CauseArgs}

root_cause(error) == error.cause

ConnectorError(kind, source) == [kind |-> kind, source |-> source]

\* the synchronous-send variant of the classifier: buffer-size-exceeded is an I/O failure
into_connector_error_sync(error) ==
    LET tag == root_cause(error).tag
    IN  IF tag \in {"DnsError", "ConnectionRefused", "ConnectionTerminated",
                    "ConnectionLimitReached", "TlsProtocolError", "TlsAlertReceived",
                    "TlsConfigurationError", "HttpIncompleteResponse",
                    "HttpResponseHeaderSectionTooLarge", "HttpResponseBodyTooLarge",
                    "HttpProtocolError", "BufferSize"}
        THEN ConnectorError("io", error)
        ELSE IF tag \in {"DnsTimeout", "ConnectionTimeout", "HttpResponseTimeout"}
        THEN ConnectorError("timeout", error)
        ELSE ConnectorError("other", error)

into_connector_error(error) ==
    LET tag == root_cause(error).tag
    IN  CASE tag \in {"DnsError", "ConnectionRefused", "ConnectionTerminated",
                      "ConnectionLimitReached", "TlsProtocolError", "TlsAlertReceived",
                      "TlsConfigurationError", "HttpIncompleteResponse",
                      "HttpResponseHeaderSectionTooLarge", "HttpResponseBodyTooLarge",
                      "HttpProtocolError"}
                 -> ConnectorError("io", error)
          [] tag \in {"DnsTimeout", "ConnectionTimeout", "HttpResponseTimeout"}
                 -> ConnectorError("timeout", error)
          [] OTHER -> ConnectorError("other", error)

(***************************************************************************)
(* Bodies.  An SdkBody is Once(None) (empty), Once(Some(bytes)) (buffered),*)
(* Dyn (a streaming source that would yield `bytes` when driven) or Taken. *)
(* SdkBody::bytes() answers Some for the two Once forms and None for the   *)
(* others.  A fastly Body is modelled by the bytes it holds.               *)
(***************************************************************************)
SdkBody(kind, bytes) == [kind |-> kind, bytes |-> bytes]

SdkBodies ==
    {SdkBody("OnceNone", <<>>), SdkBody("Taken", <<>>)}
      \cup {SdkBody(k, b) : k \in {"OnceSome", "Dyn"}, b \in SeqsUpTo(Bytes, MaxBodyLen)}

SdkBody_bytes(body) ==
    CASE body.kind = "OnceSome" -> Some(body.bytes)
      [] body.kind = "OnceNone" -> Some(<<>>)
      [] OTHER -> None

Body_new == [bytes |-> <<>>]
Body_from(bytes) == [bytes |-> bytes]

to_fastly_body(body) ==
    IF SdkBody_bytes(body) # None THEN Body_from(SdkBody_bytes(body)[1]) ELSE Body_new

\* variant: the response body is left unread
to_sdk_body_unread(body) == SdkBody("OnceSome", <<>>)

\* line 102: into_bytes reads the whole native body, SdkBody::from buffers it
to_sdk_body(body) == SdkBody("OnceSome", body.bytes)

(***************************************************************************)
(* Messages.  Headers are an ordered multimap: a sequence of <<name,       *)
(* value>> pairs.  The value "\xff" stands for a header value that is not  *)
(* UTF-8, which HttpResponse::try_from rejects.  `h1x` says whether        *)
(* HttpRequest::try_into_http1x succeeds on the request.                   *)
(***************************************************************************)
\* a header multimap keeps the values of one name together, in the order they came
IsHeaderMap(headers) ==
    \A i, j, k \in 1..Len(headers) :
        (i < j /\ j < k /\ headers[i][1] = headers[k][1]) => headers[j][1] = headers[i][1]

\* variant: a value replaces the values its name already has
HeaderMap_insert(map, name, value) ==
    Append(SelectSeq(map, LAMBDA e : e[1] # name), <<name, value>>)

\* HeaderMap::append: the value joins the values its name already has
HeaderMap_append(map, name, value) ==
    LET same == {i \in 1..Len(map) : map[i][1] = name}
    IN  IF same = {}
        THEN Append(map, <<name, value>>)
        ELSE LET last == CHOOSE i \in same : \A j \in same : j <= i
             IN  SubSeq(map, 1, last) \o <<<<name, value>>>> \o SubSeq(map, last + 1, Len(map))

\* a conversion between message types builds the new header map entry by entry
RECURSIVE HeaderMap_extend(_, _)
HeaderMap_extend(map, entries) ==
    IF entries = <<>>
    THEN map
    ELSE HeaderMap_extend(HeaderMap_append(map, Head(entries)[1], Head(entries)[2]),
                          Tail(entries))

HttpRequest(method, uri, headers, body, h1x) ==
    [method |-> method, uri |-> uri, headers |-> headers, body |-> body, h1x |-> h1x]

IsUtf8(value) == value # "\\xff"

\* variant: a request that try_into_http1x rejects is submitted all the same
from_http_request_lenient(request) ==
    Ok([method |-> request.method, uri |-> request.uri,
        headers |-> HeaderMap_extend(<<>>, request.headers),
        body |-> to_fastly_body(request.body)])

\* the Result that from_http_request unwraps: Err is the panic of line 96
from_http_request(request) ==
    IF request.h1x
    THEN Ok([method |-> request.method, uri |-> request.uri,
             headers |-> HeaderMap_extend(<<>>, request.headers),
             body |-> to_fastly_body(request.body)])
    ELSE Err("HttpError")

Response(status, headers, body) == [status |-> status, headers |-> headers, body |-> body]

\* the Result that into_http_response unwraps: Err is the panic of line 103
into_http_response(response) ==
    IF \A i \in 1..Len(response.headers) : IsUtf8(response.headers[i][2])
    THEN Ok([status |-> response.status,
             headers |-> HeaderMap_extend(<<>>, response.headers),
             body |-> to_sdk_body(response.body)])
    ELSE Err("HttpError")

(***************************************************************************)
(* Inputs of the call machine.                                             *)
(***************************************************************************)
GetStatus == HttpRequest("GET", "/status", <<>>, SdkBody("OnceNone", <<>>), TRUE)
PutStream == HttpRequest("PUT", "/object", <<<<"x-amz-meta", "a">>>>, SdkBody("Dyn", <<1>>), TRUE)
BadRequest == HttpRequest("GET", "/status", <<>>, SdkBody("OnceNone", <<>>), FALSE)

Requests == {GetStatus, PutStream, BadRequest}

OkResponse == Response(200, <<<<"content-type", "text/plain">>>>, Body_from(<<1, 2>>))
BadResponse == Response(200, <<<<"content-type", "\\xff">>>>, Body_from(<<1, 2>>))

\* one cause of each class of the classifier, and the one the two variants disagree on
CallCauses == {"ConnectionRefused", "HttpResponseTimeout", "InternalError", "BufferSize"}

\* terminal results a pending request can report: Result<Response, SendError>
Terminals(b) ==
    {Ok(OkResponse), Ok(BadResponse)} \cup {Err(SendError(b, t, 0)) : t \in CallCauses}

\* the NotYet count of a pending request that reports NotYet on every poll
Forever == -1

\* what send_async can answer: an immediate SendError, a pending request that
\* reports NotYet n times and then Done(result), or one that never reports Done
\* (the result it carries is never reported)
Outcomes(b) ==
    {Err(SendError(b, t, 0)) : t \in CallCauses}
      \cup {Ok([n |-> n, result |-> r]) : n \in 0..MaxNotYet, r \in Terminals(b)}
      \cup {Ok([n |-> Forever, result |-> Err(SendError(b, "HttpResponseTimeout", 0))])}

(***************************************************************************)
(* State.                                                                  *)
(***************************************************************************)
VARIABLES
    panicStrategy,  \* how the build treats a panic: "abort" or "unwind"
    process,        \* "running", or "aborted" once a panic has aborted the process
    client,         \* FastlyHttpClient: [backend]
    connector,      \* per call: None, or Some(FastlyHttpConnector) = Some([backend])
    callState,      \* the caller: "idle", "faulted", "awaiting", "dropped", "received"
    future,         \* the HttpConnectorFuture returned by call: "none", "ready", "boxed"
    readyValue,     \* the value inside a ready future, as an Option
    out,            \* what the caller got from awaiting the future, as an Option
    submitted,      \* per call: the sequence of send_async invocations [request, backend]
    answer,         \* per call: Option of what send_async answered
    given,          \* per call: Option of the HttpRequest that call was given
    sandbox,        \* per call: Option of the sandbox's side of the pending request
    bridge,         \* per call: Option of ResponseFuture = [pending_request : Option]
    inflight,       \* per call: the handles a PendingRequest::poll is running on
    task,           \* per call: the spawn_local task
    timers,         \* per call: number of sleeper tasks that hold its waker
    chan,           \* per call: the oneshot channel
    pollLog,        \* per call: the handles polled so far, in order
    armed,          \* per call: number of sleeper tasks spawned so far
    wakes,          \* per call: number of waker.wake() calls so far
    spurious,       \* per call: number of polls so far that no wake-up asked for
    bridgeOut,      \* per call: Option of the value ResponseFuture::poll made Ready
    convIn,         \* body conversion: the SdkBody given
    convNative,     \* body conversion: Option of to_fastly_body's answer
    convBack,       \* body conversion: Option of to_sdk_body's answer
    clsIn,          \* classifier: the SendError given
    clsOut,         \* classifier: Option of into_connector_error's answer
    made,           \* facade: one record per http_connector call so far, in order
    msgIn,          \* message conversion: the request or native response given
    msgOut          \* message conversion: Option of the conversion's Result

callVars ==
    <<panicStrategy, process, client, connector, callState, future, readyValue, out,
      submitted, answer, given, sandbox, bridge, inflight, task, timers, chan, pollLog,
      armed, wakes, spurious, bridgeOut>>
convVars == <<convIn, convNative, convBack>>
clsVars == <<clsIn, clsOut>>
facadeVars == <<made>>
msgVars == <<msgIn, msgOut>>
vars == <<callVars, convVars, clsVars, facadeVars, msgVars>>

\* the state of one call: everything the code and its tasks keep for it
CallView(c) ==
    <<connector[c], callState[c], future[c], readyValue[c], out[c], submitted[c],
      answer[c], given[c], sandbox[c], bridge[c], inflight[c], task[c], timers[c], chan[c], pollLog[c],
      armed[c], wakes[c], spurious[c], bridgeOut[c]>>

Handle(c, gen) == [id |-> c, gen |-> gen]

CallInit ==
    /\ panicStrategy \in {"abort", "unwind"}
    /\ process = "running"
    /\ client \in {[backend |-> b] : b \in Backends}
    /\ connector = [c \in Calls |-> None]
    /\ callState = [c \in Calls |-> "idle"]
    /\ future = [c \in Calls |-> "none"]
    /\ readyValue = [c \in Calls |-> None]
    /\ out = [c \in Calls |-> None]
    /\ submitted = [c \in Calls |-> <<>>]
    /\ answer = [c \in Calls |-> None]
    /\ given = [c \in Calls |-> None]
    /\ sandbox = [c \in Calls |-> None]
    /\ bridge = [c \in Calls |-> None]
    /\ inflight = [c \in Calls |-> <<>>]
    /\ task = [c \in Calls |-> "none"]
    /\ timers = [c \in Calls |-> 0]
    /\ chan = [c \in Calls |-> [state |-> "none"]]
    /\ pollLog = [c \in Calls |-> <<>>]
    /\ armed = [c \in Calls |-> 0]
    /\ wakes = [c \in Calls |-> 0]
    /\ spurious = [c \in Calls |-> 0]
    /\ bridgeOut = [c \in Calls |-> None]

ConvIdle == convIn = SdkBody("OnceNone", <<>>) /\ convNative = None /\ convBack = None
ClsIdle == clsIn = SendError("origin_a", "Unlisted", 0) /\ clsOut = None
FacadeIdle == made = <<>>
MsgIdle == msgIn = [type |-> "request", msg |-> GetStatus] /\ msgOut = None
PureIdle == FacadeIdle /\ MsgIdle

Init == CallInit /\ ConvIdle /\ ClsIdle /\ PureIdle

(***************************************************************************)
(* Pieces of the handlers.                                                 *)
(***************************************************************************)
Settings == {"default", "custom"}
Components == {"rc_a", "rc_b"}

\* variant: the connector's backend is picked by the settings
http_connector_by_settings(self, settings, components) ==
    [backend |-> IF settings = "default" THEN self.backend ELSE "origin_b"]

\* FastlyHttpClient::http_connector
http_connector(self, settings, components) == [backend |-> self.backend]

\* a call that submits the request a second time
send_async_twice(log, request, backend) ==
    Append(Append(log, [request |-> request, backend |-> backend]),
           [request |-> request, backend |-> backend])

\* request.send_async(&self.backend): one submission into the sandbox
send_async(log, request, backend) ==
    Append(log, [request |-> request, backend |-> backend])

\* a call that wraps the immediate error in a boxed future instead of a ready one
submit_error_future_boxed(error) ==
    [kind |-> "boxed", value |-> Some(Err(into_connector_error(error)))]

\* line 64: HttpConnectorFuture::ready(Err(into_connector_error(error)))
submit_error_future(error) ==
    [kind |-> "ready", value |-> Some(Err(into_connector_error(error)))]

\* a bridge with a deadline of its own: it gives up on the third poll
poll_answer_deadline(sb) == IF sb.left # 0 /\ sb.gen < 2 THEN "Pending" ELSE "Done"

\* line 143: pending_request.poll() is PollResult::Pending while the sandbox has
\* NotYet answers left for the request, and PollResult::Done after that
poll_answer(sb) == IF sb.left # 0 THEN "Pending" ELSE "Done"

\* variant: a bridge built without the handle
ResponseFuture_from_empty(pending_request) == [pending_request |-> None]

\* line 63: ResponseFuture::from(pending_request)
ResponseFuture_from(pending_request) == [pending_request |-> Some(pending_request)]

\* variant: the task is created suspended, to be run when the caller polls
spawn_local_lazy(c) == "idle"

\* line 73: spawn_local hands the task to the LocalSet, ready to run
spawn_local(c) == "scheduled"

\* a poll that puts back the handle it took instead of the one it was given
store_pending_stale(returned, taken) == Some(taken)

\* line 146: self.pending_request = Some(pending_request)
store_pending(returned, taken) == Some(returned)

\* a poll that spawns two sleepers for one NotYet
arm_timer_twice(n) == n + 2

\* lines 151-154: tokio::spawn of one sleeper holding a clone of the waker
arm_timer(n) == n + 1

\* a poll that hands every sleeper the waker of the task of call 1
waker_target_shared(c) == 1

\* line 148: cx.waker().clone() is the waker of the task that is being polled
waker_target(c) == c

\* variant: a wake-up that reaches a suspended task is lost
wake_lost(t) ==
    CASE t = "running" -> "running_notified"
      [] OTHER -> t

\* line 153: waker.wake() on the spawn_local task
wake(t) ==
    CASE t = "idle" -> "scheduled"
      [] t = "running" -> "running_notified"
      [] OTHER -> t

\* line 75: tx.send(result); a send to a dropped receiver fails and is ignored
tx_send(ch, value) ==
    IF ch.state = "open" THEN [state |-> "sent", value |-> value] ELSE ch

\* the task's future is dropped without sending: the sender goes with it
tx_drop(ch) == IF ch.state = "open" THEN [state |-> "tx_dropped"] ELSE ch

\* the caller drops the returned future: the receiver goes with it
rx_drop(ch) == IF ch.state = "none" THEN ch ELSE [state |-> "rx_dropped"]

RecvError == [type |-> "RecvError"]

\* lines 67-69: future.map_ok(into_http_response).map_err(into_connector_error);
\* the outer Err is the panic of into_http_response
map_result(result) ==
    IF result.ok
    THEN (IF into_http_response(result.val).ok
          THEN Ok(Ok(into_http_response(result.val).val))
          ELSE Err("panic"))
    ELSE Ok(Err(into_connector_error(result.err)))

\* a panic inside the spawn_local task of call c: the process aborts, or the
\* runtime catches the unwinding and drops the task's future, tx included
TaskPanic(c) ==
    IF panicStrategy = "abort"
    THEN /\ process' = "aborted"
         /\ UNCHANGED <<task, bridge, chan>>
    ELSE /\ UNCHANGED process
         /\ task' = [task EXCEPT ![c] = "panicked"]
         /\ bridge' = [bridge EXCEPT ![c] = None]
         /\ chan' = [chan EXCEPT ![c] = tx_drop(@)]

(***************************************************************************)
(* Actions.                                                                *)
(***************************************************************************)
\* FastlyHttpClient::http_connector builds the connector that call c will use
NewConnector(c, settings, components) ==
    /\ process = "running"
    /\ connector[c] = None
    /\ connector' = [connector EXCEPT ![c] = Some(http_connector(client, settings, components))]
    /\ UNCHANGED <<panicStrategy, process, client, callState, future, readyValue, out,
                   submitted, answer, given, sandbox, bridge, inflight, task, timers, chan,
                   pollLog, armed, wakes, spurious, bridgeOut>>
    /\ UNCHANGED <<convVars, clsVars, facadeVars, msgVars>>

\* FastlyHttpConnector::call, lines 59-81
Call(c, request, outcome) ==
    /\ process = "running"
    /\ connector[c] # None
    /\ callState[c] = "idle"
    /\ given' = [given EXCEPT ![c] = Some(request)]
    /\ LET self == connector[c][1]
           converted == from_http_request(request)
       IN  IF ~converted.ok
           THEN /\ callState' = [callState EXCEPT ![c] = "faulted"]
                /\ process' = IF panicStrategy = "abort" THEN "aborted" ELSE process
                /\ UNCHANGED <<future, readyValue, submitted, answer, sandbox, bridge, task, chan>>
           ELSE /\ submitted' = [submitted EXCEPT
                                    ![c] = send_async(@, converted.val, self.backend)]
                /\ answer' = [answer EXCEPT ![c] = Some(outcome)]
                /\ callState' = [callState EXCEPT ![c] = "awaiting"]
                /\ UNCHANGED process
                /\ IF ~outcome.ok
                   THEN /\ future' = [future EXCEPT ![c] = submit_error_future(outcome.err).kind]
                        /\ readyValue' = [readyValue EXCEPT
                                             ![c] = submit_error_future(outcome.err).value]
                        /\ UNCHANGED <<sandbox, bridge, task, chan>>
                   ELSE /\ sandbox' = [sandbox EXCEPT
                                          ![c] = Some([gen |-> 0, left |-> outcome.val.n,
                                                       N |-> outcome.val.n, done |-> FALSE,
                                                       result |-> outcome.val.result])]
                        /\ bridge' = [bridge EXCEPT
                                         ![c] = Some(ResponseFuture_from(Handle(c, 0)))]
                        /\ chan' = [chan EXCEPT ![c] = [state |-> "open"]]
                        /\ task' = [task EXCEPT ![c] = spawn_local(c)]
                        /\ future' = [future EXCEPT ![c] = "boxed"]
                        /\ UNCHANGED readyValue
    /\ UNCHANGED <<panicStrategy, client, connector, out, inflight, timers, pollLog,
                   armed, wakes, spurious, bridgeOut>>
    /\ UNCHANGED <<convVars, clsVars, facadeVars, msgVars>>

\* ResponseFuture::poll, line 142 and the entry into PendingRequest::poll of line 143
PollTake(c) ==
    IF bridge[c][1].pending_request = None
    THEN /\ TaskPanic(c)
         /\ UNCHANGED <<inflight, pollLog>>
    ELSE /\ inflight' = [inflight EXCEPT ![c] = Append(@, bridge[c][1].pending_request[1])]
         /\ pollLog' = [pollLog EXCEPT ![c] = Append(@, bridge[c][1].pending_request[1])]
         /\ bridge' = [bridge EXCEPT ![c] = Some([pending_request |-> None])]
         /\ task' = [task EXCEPT ![c] = "running"]
         /\ UNCHANGED <<process, chan>>

\* the model follows a handle that never reports Done for MaxPolls polls
WithinPolls(c) == sandbox[c][1].left = Forever => Len(pollLog[c]) < MaxPolls

\* the LocalSet runs the task of call c because it is scheduled
PollBegin(c) ==
    /\ process = "running"
    /\ task[c] = "scheduled"
    /\ WithinPolls(c)
    /\ PollTake(c)
    /\ UNCHANGED <<panicStrategy, client, connector, callState, future, readyValue, out,
                   submitted, answer, given, sandbox, timers, armed, wakes, spurious, bridgeOut>>
    /\ UNCHANGED <<convVars, clsVars, facadeVars, msgVars>>

\* the task of call c is polled although nothing woke it: the Future contract lets an
\* executor do so (the LocalSet itself polls a task only after a wake-up), and each
\* such poll runs the same ResponseFuture::poll
SpuriousPoll(c) ==
    /\ process = "running"
    /\ task[c] = "idle"
    /\ spurious[c] < MaxSpurious
    /\ WithinPolls(c)
    /\ spurious' = [spurious EXCEPT ![c] = @ + 1]
    /\ PollTake(c)
    /\ UNCHANGED <<panicStrategy, client, connector, callState, future, readyValue, out,
                   submitted, answer, given, sandbox, timers, armed, wakes, bridgeOut>>
    /\ UNCHANGED <<convVars, clsVars, facadeVars, msgVars>>

\* PendingRequest::poll answers and ResponseFuture::poll finishes, lines 143-158;
\* on Ready the spawned task maps the result and sends it, lines 67-76
PollEnd(c) ==
    /\ process = "running"
    /\ task[c] \in {"running", "running_notified"}
    /\ LET taken == inflight[c][1]
           sb == sandbox[c][1]
       IN  /\ inflight' = [inflight EXCEPT ![c] = Tail(@)]
           /\ IF poll_answer(sb) = "Pending"
              THEN /\ sandbox' = [sandbox EXCEPT
                                     ![c] = Some([sb EXCEPT
                                                     !.left = IF @ = Forever THEN @ ELSE @ - 1,
                                                     !.gen = @ + 1])]
                   /\ bridge' = [bridge EXCEPT
                                    ![c] = Some([pending_request |->
                                                   store_pending(Handle(c, sb.gen + 1), taken)])]
                   /\ timers' = [timers EXCEPT ![waker_target(c)] = arm_timer(@)]
                   /\ armed' = [armed EXCEPT ![waker_target(c)] = arm_timer(@)]
                   /\ task' = [task EXCEPT
                                  ![c] = IF @ = "running_notified" THEN "scheduled" ELSE "idle"]
                   /\ UNCHANGED <<process, chan, bridgeOut>>
              ELSE /\ sandbox' = [sandbox EXCEPT ![c] = Some([sb EXCEPT !.done = TRUE])]
                   /\ bridgeOut' = [bridgeOut EXCEPT ![c] = Some(sb.result)]
                   /\ UNCHANGED <<timers, armed>>
                   /\ IF ~map_result(sb.result).ok
                      THEN TaskPanic(c)
                      ELSE /\ chan' = [chan EXCEPT ![c] = tx_send(@, map_result(sb.result).val)]
                           /\ task' = [task EXCEPT ![c] = "complete"]
                           /\ bridge' = [bridge EXCEPT ![c] = None]
                           /\ UNCHANGED process
    /\ UNCHANGED <<panicStrategy, client, connector, callState, future, readyValue, out,
                   submitted, answer, given, pollLog, wakes, spurious>>
    /\ UNCHANGED <<convVars, clsVars, facadeVars, msgVars>>

\* a sleeper of call c finishes its 5 ms sleep and calls waker.wake(), lines 152-153
TimerFire(c) ==
    /\ process = "running"
    /\ timers[c] > 0
    /\ timers' = [timers EXCEPT ![c] = @ - 1]
    /\ wakes' = [wakes EXCEPT ![c] = @ + 1]
    /\ task' = [task EXCEPT ![c] = wake(@)]
    /\ UNCHANGED <<panicStrategy, process, client, connector, callState, future, readyValue,
                   out, submitted, answer, given, sandbox, bridge, inflight, chan, pollLog, armed,
                   spurious, bridgeOut>>
    /\ UNCHANGED <<convVars, clsVars, facadeVars, msgVars>>

\* the caller's await of the returned future completes: a ready future at once,
\* a boxed one through rx.await.unwrap_or_else(..), lines 78-80
Await(c) ==
    /\ process = "running"
    /\ callState[c] = "awaiting"
    /\ \/ /\ future[c] = "ready"
          /\ out' = [out EXCEPT ![c] = readyValue[c]]
       \/ /\ future[c] = "boxed"
          /\ chan[c].state = "sent"
          /\ out' = [out EXCEPT ![c] = Some(chan[c].value)]
       \/ /\ future[c] = "boxed"
          /\ chan[c].state = "tx_dropped"
          /\ out' = [out EXCEPT ![c] = Some(Err(ConnectorError("io", RecvError)))]
    /\ callState' = [callState EXCEPT ![c] = "received"]
    /\ UNCHANGED <<panicStrategy, process, client, connector, future, readyValue,
                   submitted, answer, given, sandbox, bridge, inflight, task, timers, chan, pollLog,
                   armed, wakes, spurious, bridgeOut>>
    /\ UNCHANGED <<convVars, clsVars, facadeVars, msgVars>>

\* the caller abandons the call: it drops the returned future before it completed
DropFuture(c) ==
    /\ process = "running"
    /\ callState[c] = "awaiting"
    /\ callState' = [callState EXCEPT ![c] = "dropped"]
    /\ chan' = [chan EXCEPT ![c] = rx_drop(@)]
    /\ UNCHANGED <<panicStrategy, process, client, connector, future, readyValue, out,
                   submitted, answer, given, sandbox, bridge, inflight, task, timers, pollLog,
                   armed, wakes, spurious, bridgeOut>>
    /\ UNCHANGED <<convVars, clsVars, facadeVars, msgVars>>

\* the steps of call c; its request is drawn from `requests` and the sandbox's
\* answer from outcomes[b], b the backend of the connector
CallNext(c, requests, outcomes) ==
    \/ \E s \in Settings, rc \in Components : NewConnector(c, s, rc)
    \/ /\ connector[c] # None
       /\ \E request \in requests :
            \E outcome \in outcomes[connector[c][1].backend] : Call(c, request, outcome)
    \/ PollBegin(c)
    \/ SpuriousPoll(c)
    \/ PollEnd(c)
    \/ TimerFire(c)
    \/ Await(c)
    \/ DropFuture(c)

AllOutcomes == [b \in Backends |-> Outcomes(b)]

Next == CallNext(1, Requests, AllOutcomes)

Spec == Init /\ [][Next]_vars

\* the LocalSet runs a scheduled task and lets a running poll finish, the runtime
\* lets a sleeper's 5 ms pass, and the caller that awaits keeps awaiting
SpecFair ==
    /\ Init /\ [][Next]_vars
    /\ WF_vars(PollBegin(1)) /\ WF_vars(PollEnd(1))
    /\ WF_vars(TimerFire(1)) /\ WF_vars(Await(1))

\* the same executor and timers, and a caller that is free never to poll the
\* future that call returned
SpecDrive ==
    /\ Init /\ [][Next]_vars
    /\ WF_vars(PollBegin(1)) /\ WF_vars(PollEnd(1)) /\ WF_vars(TimerFire(1))


(***************************************************************************)
(* The two pure functions on their own: the classifier applied to every    *)
(* SendError, and the body conversions applied to every SdkBody.           *)
(***************************************************************************)
CallIdle == CallInit /\ panicStrategy = "abort" /\ client = [backend |-> "origin_a"]

Classify ==
    /\ clsOut = None
    /\ clsOut' = Some(into_connector_error(clsIn))
    /\ UNCHANGED <<clsIn, callVars, convVars, facadeVars, msgVars>>

InitClassify == CallIdle /\ ConvIdle /\ PureIdle /\ clsIn \in SendErrors /\ clsOut = None
NextClassify == Classify
SpecClassify == InitClassify /\ [][NextClassify]_vars

ToNative ==
    /\ convNative = None
    /\ convNative' = Some(to_fastly_body(convIn))
    /\ UNCHANGED <<convIn, convBack, callVars, clsVars, facadeVars, msgVars>>

FromNative ==
    /\ convNative # None
    /\ convBack = None
    /\ convBack' = Some(to_sdk_body(convNative[1]))
    /\ UNCHANGED <<convIn, convNative, callVars, clsVars, facadeVars, msgVars>>

\* SharedHttpConnector::new puts the connector in an allocation of its own
SharedHttpConnector_new(log) == Len(log) + 1

\* FastlyHttpClient::http_connector called on the facade, lines 37-45
HttpConnector(settings, components) ==
    /\ Len(made) < MaxConnectors
    /\ made' = Append(made, [self |-> client, settings |-> settings,
                             components |-> components,
                             connector |-> http_connector(client, settings, components),
                             shared |-> SharedHttpConnector_new(made)])
    /\ UNCHANGED <<callVars, convVars, clsVars, msgVars>>

InitFacade == CallInit /\ panicStrategy = "abort" /\ ConvIdle /\ ClsIdle /\ MsgIdle /\ made = <<>>
NextFacade == \E settings \in Settings, components \in Components : HttpConnector(settings, components)
SpecFacade == InitFacade /\ [][NextFacade]_vars

\* Request::from_http_request on its own, lines 88-98
RequestToNative ==
    /\ msgIn.type = "request"
    /\ msgOut = None
    /\ msgOut' = Some(from_http_request(msgIn.msg))
    /\ UNCHANGED <<msgIn, callVars, convVars, clsVars, facadeVars>>

\* into_http_response on its own, lines 100-104
ResponseFromNative ==
    /\ msgIn.type = "response"
    /\ msgOut = None
    /\ msgOut' = Some(into_http_response(msgIn.msg))
    /\ UNCHANGED <<msgIn, callVars, convVars, clsVars, facadeVars>>

HeaderNames == {"accept", "x-amz-meta"}
\* an SDK request holds header values that are UTF-8; a native response need not
RequestHeaders ==
    {h \in SeqsUpTo(HeaderNames \X {"a", "b"}, MaxHeaders) : IsHeaderMap(h)}
ResponseHeaders ==
    {h \in SeqsUpTo(HeaderNames \X {"a", "\\xff"}, MaxHeaders) : IsHeaderMap(h)}

MessageRequests ==
    {HttpRequest(m, "/object", h, SdkBody("OnceSome", <<1>>), x) :
        m \in {"GET", "PUT"}, h \in RequestHeaders, x \in BOOLEAN}
MessageResponses ==
    {Response(st, h, Body_from(<<1>>)) : st \in {200, 404}, h \in ResponseHeaders}

InitMessage ==
    /\ CallIdle /\ ConvIdle /\ ClsIdle /\ FacadeIdle
    /\ msgIn \in {[type |-> "request", msg |-> r] : r \in MessageRequests}
                 \cup {[type |-> "response", msg |-> r] : r \in MessageResponses}
    /\ msgOut = None
NextMessage == RequestToNative \/ ResponseFromNative
SpecMessage == InitMessage /\ [][NextMessage]_vars

InitConvert == CallIdle /\ ClsIdle /\ PureIdle /\ convIn \in SdkBodies /\ convNative = None /\ convBack = None
NextConvert == ToNative \/ FromNative
SpecConvert == InitConvert /\ [][NextConvert]_vars

(***************************************************************************)
(* Two concurrent calls on well-formed requests.                           *)
(***************************************************************************)
PairRequests == {GetStatus}
PairOutcomes ==
    [b \in Backends |->
        {o \in Outcomes(b) :
            o.ok => /\ o.val.n # Forever
                    /\ o.val.result \in {Ok(OkResponse), Ok(BadResponse),
                                          Err(SendError(b, "HttpResponseTimeout", 0))}}]

NextPair == \E c \in Calls : CallNext(c, PairRequests, PairOutcomes)
SpecPair == Init /\ [][NextPair]_vars


(***************************************************************************)
(* The classifier table of the specification, section 4.3.                 *)
(***************************************************************************)
TableIo ==
    {"DnsError", "ConnectionRefused", "ConnectionTerminated", "ConnectionLimitReached",
     "TlsProtocolError", "TlsAlertReceived", "TlsConfigurationError",
     "HttpIncompleteResponse", "HttpResponseHeaderSectionTooLarge",
     "HttpResponseBodyTooLarge", "HttpProtocolError"}
TableTimeout == {"DnsTimeout", "ConnectionTimeout", "HttpResponseTimeout"}
TableClass(tag) ==
    IF tag \in TableIo THEN "io" ELSE IF tag \in TableTimeout THEN "timeout" ELSE "other"
Classified(error) == Err(ConnectorError(TableClass(error.cause.tag), error))

(***************************************************************************)
(* C1.  Poll Bridge termination: when the handle reports NotYet exactly N  *)
(* times and then Done(r), and the task was re-polled only after timer     *)
(* wake-ups, the bridge has issued exactly N+1 polls, armed exactly N      *)
(* timers, been rescheduled by exactly N wake-ups, and made r Ready; a     *)
(* failure r reaches an awaiting caller as its class (NotYet twice, then   *)
(* Done(response timeout), is a Timeout after two reschedules).            *)
(***************************************************************************)
C1_PollBridgeTermination ==
    \A c \in Calls :
        (bridgeOut[c] # None /\ spurious[c] = 0) =>
            /\ Len(pollLog[c]) = sandbox[c][1].N + 1
            /\ armed[c] = sandbox[c][1].N
            /\ wakes[c] = sandbox[c][1].N
            /\ timers[c] = 0
            /\ bridgeOut[c] = Some(sandbox[c][1].result)
            /\ (callState[c] = "received" /\ ~sandbox[c][1].result.ok) =>
                   out[c] = Some(Classified(sandbox[c][1].result.err))

C1_Witness ==
    /\ bridgeOut[1] # None
    /\ spurious[1] = 0
    /\ sandbox[1][1].N = 2
    /\ sandbox[1][1].result = Err(SendError(client.backend, "HttpResponseTimeout", 0))
    /\ wakes[1] = 2
    /\ Len(pollLog[1]) = 3
    /\ callState[1] = "received"
    /\ out[1][1].err.kind = "timeout"

(***************************************************************************)
(* C2.  Polls on one handle are strictly sequential: at most one poll of a *)
(* call's pending request is outstanding, the poll holds the handle the    *)
(* bridge gave up (the bridge keeps none meanwhile), the first attempt     *)
(* polls the handle that submit returned and attempt k+1 polls the handle  *)
(* that the NotYet of attempt k returned.                                  *)
(***************************************************************************)
C2_SequentialPolls ==
    \A c \in Calls :
        /\ Len(inflight[c]) <= 1
        /\ inflight[c] # <<>> =>
               /\ bridge[c] = Some([pending_request |-> None])
               /\ inflight[c][1] = Handle(c, sandbox[c][1].gen)
        /\ \A k \in 1..Len(pollLog[c]) : pollLog[c][k] = Handle(c, k - 1)
        /\ (bridge[c] # None /\ bridge[c][1].pending_request # None) =>
               bridge[c][1].pending_request = Some(Handle(c, sandbox[c][1].gen))

C2_Witness ==
    /\ Len(pollLog[1]) = 3
    /\ Len(inflight[1]) = 1
    /\ timers[1] > 0
    /\ spurious[1] > 0

(***************************************************************************)
(* C3.  Immediate-failure short-circuit: when send_async fails with cause  *)
(* c, call returns a future that is already complete and carries the class *)
(* of c; there is no bridge, no poll, no timer, no task and no channel.    *)
(***************************************************************************)
C3_ImmediateFailure ==
    \A c \in Calls :
        (answer[c] # None /\ ~answer[c][1].ok) =>
            /\ future[c] = "ready"
            /\ readyValue[c] = Some(Classified(answer[c][1].err))
            /\ callState[c] = "received" => out[c] = Some(Classified(answer[c][1].err))
            /\ bridge[c] = None /\ sandbox[c] = None
            /\ pollLog[c] = <<>> /\ inflight[c] = <<>>
            /\ armed[c] = 0 /\ timers[c] = 0
            /\ task[c] = "none"
            /\ chan[c].state = "none"

C3_Witness ==
    /\ answer[1] = Some(Err(SendError(client.backend, "ConnectionRefused", 0)))
    /\ callState[1] = "received"
    /\ out[1][1].err.kind = "io"
    /\ pollLog[1] = <<>>

(***************************************************************************)
(* C4.  Polled-path outcome: a caller that received the result of a call   *)
(* whose submission succeeded holds the converted response when the handle *)
(* reported a success, and the class of the cause when it reported a Send  *)
(* Failure.                                                                *)
(***************************************************************************)
C4_PolledOutcome ==
    \A c \in Calls :
        (callState[c] = "received" /\ answer[c] # None /\ answer[c][1].ok) =>
            LET r == answer[c][1].val.result
            IN  IF r.ok
                THEN /\ out[c][1].ok
                     /\ out[c][1].val.status = r.val.status
                     /\ out[c][1].val.headers = r.val.headers
                     /\ out[c][1].val.body.bytes = r.val.body.bytes
                ELSE out[c] = Some(Classified(r.err))

(***************************************************************************)
(* C5.  Cancellation: once the caller has dropped the returned future, no  *)
(* further poll is issued on the call's handle and no further timer is     *)
(* armed for it.                                                           *)
(***************************************************************************)
C5_CancellationStopsPolling ==
    [][\A c \in Calls :
          callState[c] = "dropped" => (pollLog'[c] = pollLog[c] /\ armed'[c] = armed[c])]_vars

(***************************************************************************)
(* C6.  Classifier table: into_connector_error answers for every SendError *)
(* with the class the table gives its root-cause tag, whatever the payload *)
(* and the backend name: buffer-size-exceeded and unlisted causes are      *)
(* Other.                                                                  *)
(***************************************************************************)
C6_ClassifierTable ==
    clsOut # None => clsOut = Some(ConnectorError(TableClass(clsIn.cause.tag), clsIn))

C6_Witness ==
    /\ clsOut # None
    /\ clsIn.cause.tag = "BufferSize"
    /\ clsOut[1].kind = "other"

(***************************************************************************)
(* C7.  Malformed response is not downgraded: when the handle ends in a    *)
(* success whose response cannot be converted, the caller receives nothing *)
(* for that call, in particular no ConnectorError.                         *)
(***************************************************************************)
C7_MalformedNotDowngraded ==
    \A c \in Calls :
        (bridgeOut[c] # None /\ bridgeOut[c][1].ok
            /\ \E i \in 1..Len(bridgeOut[c][1].val.headers) :
                   ~IsUtf8(bridgeOut[c][1].val.headers[i][2])) =>
            out[c] = None

(***************************************************************************)
(* C8.  Body toNative never drops data: the native body holds all of the   *)
(* bytes of the abstract body, whichever of its kinds it is.               *)
(***************************************************************************)
C8_ToNativeKeepsBytes ==
    convNative # None => convNative[1].bytes = convIn.bytes

(***************************************************************************)
(* C9.  Exactly one submission per call: once call has converted its       *)
(* request, send_async has been invoked exactly once for it, against the   *)
(* backend of the connector, whatever happens afterwards.                  *)
(***************************************************************************)
C9_OneSubmission ==
    \A c \in Calls :
        callState[c] \in {"awaiting", "dropped", "received"} =>
            /\ Len(submitted[c]) = 1
            /\ submitted[c][1].backend = connector[c][1].backend
            /\ submitted[c][1].backend = client.backend

C9_Witness ==
    /\ task[1] = "complete"
    /\ Len(pollLog[1]) = 3
    /\ callState[1] = "received"
    /\ Len(submitted[1]) = 1

(***************************************************************************)
(* C10.  Independence: each of two concurrent calls completes after        *)
(* exactly its own number of NotYet results; every step changes the state  *)
(* of one call only; and while the process runs, a scheduled task can be   *)
(* polled, a running poll can finish and an armed timer can fire whatever  *)
(* the other call is doing.                                                *)
(***************************************************************************)
C10_Independence ==
    /\ [](\A c \in Calls :
            /\ bridgeOut[c] # None =>
                   (Len(pollLog[c]) = sandbox[c][1].N + 1 /\ armed[c] = sandbox[c][1].N)
            /\ process = "running" =>
                   /\ task[c] = "scheduled" => ENABLED PollBegin(c)
                   /\ task[c] \in {"running", "running_notified"} => ENABLED PollEnd(c)
                   /\ timers[c] > 0 => ENABLED TimerFire(c))
    /\ [][\E c \in Calls : \A d \in Calls \ {c} : CallView(d)' = CallView(d)]_vars

C10_Witness ==
    /\ bridgeOut[2] # None
    /\ sandbox[2][1].N = 0
    /\ bridgeOut[1] = None
    /\ sandbox[1] # None
    /\ sandbox[1][1].N = 2
    /\ Len(pollLog[1]) = 1
    /\ task[1] = "idle"


(***************************************************************************)
(* C11.  No bridge-imposed deadline: while the handle reports NotYet on    *)
(* every poll the bridge makes nothing Ready, the task does not complete   *)
(* and the caller receives nothing, however many polls and timers there    *)
(* have been; every NotYet has armed a timer, and the task is scheduled,   *)
(* running or has a wake-up pending.  A caller receives a Timeout only     *)
(* when the sandbox reported a timeout root cause, at submission or in     *)
(* Done.                                                                   *)
(***************************************************************************)
C11_NoBridgeDeadline ==
    \A c \in Calls :
        /\ (sandbox[c] # None /\ sandbox[c][1].left = Forever) =>
               /\ bridgeOut[c] = None
               /\ out[c] = None
               /\ ~sandbox[c][1].done
               /\ task[c] \in {"scheduled", "running", "running_notified", "idle"}
               /\ task[c] = "idle" => timers[c] > 0
               /\ armed[c] = Len(pollLog[c]) - Len(inflight[c])
               /\ chan[c].state \in {"open", "rx_dropped"}
        /\ (out[c] # None /\ ~out[c][1].ok /\ out[c][1].err.kind = "timeout") =>
               \/ ~answer[c][1].ok /\ answer[c][1].err.cause.tag \in TableTimeout
               \/ /\ answer[c][1].ok
                  /\ bridgeOut[c] = Some(answer[c][1].val.result)
                  /\ ~answer[c][1].val.result.ok
                  /\ answer[c][1].val.result.err.cause.tag \in TableTimeout

C11_Witness ==
    /\ sandbox[1] # None
    /\ sandbox[1][1].left = Forever
    /\ Len(pollLog[1]) = MaxPolls
    /\ armed[1] = MaxPolls
    /\ wakes[1] = MaxPolls
    /\ callState[1] = "awaiting"
    /\ out[1] = None


(***************************************************************************)
(* C12.  Malformed request faults before submission: when call is given a  *)
(* request that cannot be turned into an http request, the fault is raised *)
(* inside call (an aborting build ends the process there): call returns no *)
(* future, so no ConnectorError, and there has been no submission, no      *)
(* poll, no timer and no task.                                             *)
(***************************************************************************)
C12_MalformedRequestFaults ==
    \A c \in Calls :
        (given[c] # None /\ ~given[c][1].h1x) =>
            /\ callState[c] = "faulted"
            /\ panicStrategy = "abort" => process = "aborted"
            /\ future[c] = "none" /\ readyValue[c] = None /\ out[c] = None
            /\ submitted[c] = <<>> /\ answer[c] = None /\ sandbox[c] = None
            /\ bridge[c] = None /\ pollLog[c] = <<>> /\ inflight[c] = <<>>
            /\ armed[c] = 0 /\ timers[c] = 0
            /\ task[c] = "none" /\ chan[c].state = "none"

C12_Witness ==
    /\ given[1] = Some(BadRequest)
    /\ callState[1] = "faulted"


(***************************************************************************)
(* C13.  Body round trip: a buffered body taken to a native body and back  *)
(* holds exactly the bytes it started with; an empty body comes back       *)
(* empty.                                                                  *)
(***************************************************************************)
C13_BodyRoundTrip ==
    (convBack # None /\ convIn.kind \in {"OnceSome", "OnceNone"}) =>
        /\ SdkBody_bytes(convBack[1]) = Some(convIn.bytes)
        /\ convIn.bytes = <<>> => convBack[1].bytes = <<>>

C13_Witness ==
    /\ convIn = SdkBody("OnceSome", <<1, 2>>)
    /\ convNative = Some(Body_from(<<1, 2>>))
    /\ convBack # None


(***************************************************************************)
(* C14.  Client facade: over any sequence of http_connector calls, with    *)
(* any settings and runtime components, the facade's backend stays what it *)
(* was, every call yields a connector in a new allocation whose backend is *)
(* the facade's, and two calls yield equal connectors whatever their       *)
(* arguments were.                                                         *)
(***************************************************************************)
C14_ClientFacade ==
    \A i \in 1..Len(made) :
        /\ made[i].self = client
        /\ made[i].connector.backend = client.backend
        /\ \A j \in 1..Len(made) :
               /\ made[j].connector = made[i].connector
               /\ i # j => made[j].shared # made[i].shared

C14_Witness ==
    /\ Len(made) = MaxConnectors
    /\ \E i, j \in 1..Len(made) :
           made[i].settings # made[j].settings /\ made[i].components # made[j].components
    /\ client.backend = "origin_a"


(***************************************************************************)
(* C15.  Header and status fidelity: for a request that converts, the      *)
(* native request has the same method, URI and header multimap, duplicate  *)
(* names and order included; for a native response whose header values are *)
(* all UTF-8, the SDK response has the same status and header multimap.    *)
(***************************************************************************)
C15_HeaderStatusFidelity ==
    msgOut # None =>
        /\ (msgIn.type = "request" /\ msgIn.msg.h1x) =>
               /\ msgOut[1].ok
               /\ msgOut[1].val.method = msgIn.msg.method
               /\ msgOut[1].val.uri = msgIn.msg.uri
               /\ msgOut[1].val.headers = msgIn.msg.headers
        /\ (/\ msgIn.type = "response"
            /\ \A i \in 1..Len(msgIn.msg.headers) : IsUtf8(msgIn.msg.headers[i][2])) =>
               /\ msgOut[1].ok
               /\ msgOut[1].val.status = msgIn.msg.status
               /\ msgOut[1].val.headers = msgIn.msg.headers

C15_Witness ==
    /\ msgIn.type = "request"
    /\ msgIn.msg.method = "PUT"
    /\ msgIn.msg.headers = <<<<"x-amz-meta", "b">>, <<"x-amz-meta", "a">>, <<"accept", "a">>>>
    /\ msgOut # None /\ msgOut[1].ok


(***************************************************************************)
(* C16.  No lost wake-up: a task that is suspended holds a handle in its   *)
(* bridge and has a sleeper outstanding that will wake it, and it has      *)
(* spawned one sleeper per poll that reported Pending.  Hence, when the    *)
(* executor and the timers are fair and the handle reports Done after      *)
(* finitely many polls, a caller that keeps awaiting gets a result (the    *)
(* call ends earlier only if the caller drops the future or a fault ends   *)
(* the process).                                                           *)
(***************************************************************************)
C16_Suspended ==
    \A c \in Calls :
        /\ task[c] = "idle" =>
               /\ timers[c] > 0
               /\ bridge[c] # None /\ bridge[c][1].pending_request # None
        /\ sandbox[c] # None =>
               armed[c] = sandbox[c][1].gen

C16_WillEnd(c) ==
    /\ callState[c] = "awaiting"
    /\ future[c] = "boxed" => sandbox[c][1].left # Forever

C16_NoLostWakeup ==
    /\ []C16_Suspended
    /\ C16_WillEnd(1) ~> (out[1] # None \/ callState[1] = "dropped" \/ process = "aborted")

C16_Witness ==
    /\ sandbox[1] # None /\ sandbox[1][1].N = MaxNotYet
    /\ armed[1] = MaxNotYet /\ wakes[1] = MaxNotYet /\ spurious[1] = 0
    /\ callState[1] = "received"
    /\ out[1] = Some(map_result(sandbox[1][1].result).val)


(***************************************************************************)
(* C17.  Handle lifecycle: whenever the task can be polled (it is          *)
(* scheduled, or suspended and open to a spurious poll) the bridge holds a *)
(* handle, so no poll is entered without one; a poll that is running holds *)
(* the handle itself; and once a poll has reported Done no further poll    *)
(* happens, also while sleepers of earlier polls are still outstanding.    *)
(***************************************************************************)
C17_HandlePresent ==
    \A c \in Calls :
        /\ task[c] \in {"scheduled", "idle"} =>
               bridge[c] # None /\ bridge[c][1].pending_request # None
        /\ task[c] \in {"running", "running_notified"} =>
               Len(inflight[c]) = 1 \/ process = "aborted"
        /\ task[c] # "panicked" \/ bridgeOut[c] # None

C17_NoPollAfterDone ==
    \A c \in Calls :
        (sandbox[c] # None /\ sandbox[c][1].done) =>
            /\ pollLog'[c] = pollLog[c]
            /\ inflight'[c] = <<>>

C17_HandleLifecycle == []C17_HandlePresent /\ [][C17_NoPollAfterDone]_vars

C17_Witness ==
    /\ sandbox[1] # None /\ sandbox[1][1].done
    /\ task[1] = "complete"
    /\ spurious[1] > 0
    /\ timers[1] > 0


(***************************************************************************)
(* C18.  Eager submission and background driving: when call has returned   *)
(* a future the request has been submitted, once, whether or not the       *)
(* caller ever polls that future, and a spawned task of its own polls the  *)
(* bridge; so a handle that reports Done after finitely many polls is      *)
(* driven to Done by the executor and the timers alone, with no step of    *)
(* the caller.                                                             *)
(***************************************************************************)
C18_Submitted ==
    \A c \in Calls :
        /\ callState[c] \in {"awaiting", "received", "dropped"} =>
               /\ Len(submitted[c]) = 1
               /\ answer[c] # None
               /\ future[c] = "boxed" <=> task[c] # "none"
        /\ callState[c] \in {"idle", "faulted"} => task[c] = "none" /\ pollLog[c] = <<>>

C18_Driven(c) == sandbox[c] # None /\ sandbox[c][1].left # Forever

C18_EagerAndDriven ==
    /\ []C18_Submitted
    /\ C18_Driven(1) ~> (sandbox[1] # None /\ sandbox[1][1].done)

C18_Witness ==
    /\ callState[1] = "awaiting" /\ out[1] = None
    /\ sandbox[1] # None /\ sandbox[1][1].done /\ sandbox[1][1].N = MaxNotYet
    /\ Len(pollLog[1]) = MaxNotYet + 1
    /\ chan[1].state = "sent"

====
